---- MODULE Spec2Model ----
(***************************************************************************)
(* Model of hackernews/get_front_page/run.py: one run of main(), its       *)
(* ThreadPoolExecutor workers running fetch_item, the as_completed drain   *)
(* and the reassembly loop.                                                *)
(***************************************************************************)
EXTENDS Integers, Sequences, FiniteSets, TLC

\* ---------------------------------------------------------------- bounds
\* Longest JSON array the story-list endpoint answers with.
MaxList == 3
\* Most pool threads the model lets run at once (the pool itself allows
\* max_workers; lists longer than the pool must fit within MaxList).
MaxThreads == 2

\* ------------------------------------------------------ program constants
max_workers == 20
MinLimit == 1
MaxLimit == 500
DefaultLimit == 30

\* ------------------------------------------------------------ input sets
StoryIdSet == {111, 222}
LimitInputs == {-5, 1, 2, 10000}
Null == "null"

Min(a, b) == IF a < b THEN a ELSE b
Max(a, b) == IF a > b THEN a ELSE b

\* Number of worker threads the executor may have running requests.
PoolSize == Min(max_workers, MaxThreads)

\* What json.load(sys.stdin) meets: text that is no JSON, an object without
\* "limit", or an object with an integer "limit".
StdinInputs ==
    {[ok |-> FALSE, has_limit |-> FALSE, limit |-> 0],
     [ok |-> TRUE, has_limit |-> FALSE, limit |-> 0]}
    \cup {[ok |-> TRUE, has_limit |-> TRUE, limit |-> L] : L \in LimitInputs}

\* The clamp without its lower bound.
Clamp_noFloor(l) == Min(MaxLimit, l)

\* limit = max(1, min(500, limit))
Clamp(l) == Max(MinLimit, Min(MaxLimit, l))

\* params.get("limit", 30), then the clamp
EffectiveLimit(params) ==
    Clamp(IF params.has_limit THEN params.limit ELSE DefaultLimit)

\* s[:n] for n >= 0
Take(s, n) == SubSeq(s, 1, Min(n, Len(s)))

\* The id list used whole.
Truncate_none(ids, lim) == ids

\* response.json()[:limit]
Truncate(ids, lim) == Take(ids, lim)

SeqsUpTo(S, n) == UNION {[1..k -> S] : k \in 0..n}

\* Answers of the story-list endpoint: a failure (network error, HTTP error
\* status, malformed JSON: requests.get / raise_for_status / json() raise)
\* or a JSON array of ids.
ListResponses ==
    {[state |-> "fail", ids |-> <<>>]}
    \cup {[state |-> "ok", ids |-> s] : s \in SeqsUpTo(StoryIdSet, MaxList)}
ListUnasked == [state |-> "unasked", ids |-> <<>>]

\* ------------------------------------------------------------- RawItems
EmptyDict == [k \in {} |-> 0]

\* Two item records the item endpoint may answer with for one id: a full
\* one and a sparse one.
FullItem(id) ==
    [id |-> id, title |-> "t", url |-> "u", by |-> "a", score |-> 5,
     descendants |-> 2, time |-> 86400, type |-> "story"]
SparseItem(id) == [id |-> id]

\* Outcomes of fetch_item(id): it raises (network error, timeout, HTTP
\* error status, parse error), or returns the decoded JSON: null, an empty
\* object, or an item record.
ItemResponses(id) ==
    {[kind |-> "raise", body |-> EmptyDict],
     [kind |-> "null", body |-> EmptyDict],
     [kind |-> "dict", body |-> EmptyDict],
     [kind |-> "dict", body |-> FullItem(id)],
     [kind |-> "dict", body |-> SparseItem(id)]}
Pending == [kind |-> "pending", body |-> EmptyDict]

\* A test for None only (`if item is not None`).
Truthy_notNone(r) == r.kind = "dict"

\* Python truth value of what fetch_item returned (`if item:`).
Truthy(r) == r.kind = "dict" /\ DOMAIN r.body # {}

\* item.get(key, default)
Get(item, key, default) == IF key \in DOMAIN item THEN item[key] ELSE default

\* datetime.fromtimestamp(ts, tz=utc).isoformat() for ts >= 0, as the
\* fields the ISO-8601 text is printed from.
CivilFromDays(z0) ==
    LET z == z0 + 719468
        era == z \div 146097
        doe == z - era * 146097
        yoe == (doe - doe \div 1460 + doe \div 36524 - doe \div 146096) \div 365
        doy == doe - (365 * yoe + yoe \div 4 - yoe \div 100)
        mp == (5 * doy + 2) \div 153
        d == doy - (153 * mp + 2) \div 5 + 1
        m == IF mp < 10 THEN mp + 3 ELSE mp - 9
        y == yoe + era * 400 + (IF m <= 2 THEN 1 ELSE 0)
    IN  <<y, m, d>>

\* fromtimestamp(ts) without tz=utc, on a host one hour east of UTC.
IsoFormat_localtime(ts) ==
    LET date == CivilFromDays((ts + 3600) \div 86400)
        sod == (ts + 3600) % 86400
    IN  [year |-> date[1], month |-> date[2], day |-> date[3],
         hour |-> sod \div 3600, minute |-> (sod % 3600) \div 60,
         second |-> sod % 60, offset |-> ""]

IsoFormat(ts) ==
    LET date == CivilFromDays(ts \div 86400)
        sod == ts % 86400
    IN  [year |-> date[1], month |-> date[2], day |-> date[3],
         hour |-> sod \div 3600, minute |-> (sod % 3600) \div 60,
         second |-> sod % 60, offset |-> "+00:00"]

format_story(item) ==
    [id |-> Get(item, "id", Null),
     title |-> Get(item, "title", Null),
     url |-> Get(item, "url", Null),
     text |-> Get(item, "text", Null),
     author |-> Get(item, "by", Null),
     score |-> Get(item, "score", 0),
     comment_count |-> Get(item, "descendants", 0),
     created_at |-> IsoFormat(Get(item, "time", 0)),
     type |-> Get(item, "type", Null)]

\* results[story_id] = item
DictSet(d, k, v) == [x \in DOMAIN d \cup {k} |-> IF x = k THEN v ELSE d[x]]

\* ----------------------------------------------------------------- state
VARIABLES
    stdin,          \* what standard input holds
    pc,             \* position of the main thread
    limit,          \* the clamped limit
    list_resp,      \* the story-list endpoint's answer
    list_requests,  \* GETs issued to the story-list endpoint
    story_ids,      \* response.json()[:limit]
    nsubmitted,     \* work items handed to the executor (a prefix of story_ids)
    nstarted,       \* work items taken from the executor's FIFO queue
    running,        \* positions whose fetch_item call is in flight
    finished,       \* positions whose future is done
    item_resp,      \* position -> outcome of its fetch_item call
    requested,      \* ids of the item GETs issued, in issue order
    yielded,        \* positions as_completed has handed to the loop
    results,        \* the dict results
    next_rank,      \* index of the reassembly loop
    stories,        \* the list stories
    stdout,         \* objects written to standard output
    prev            \* outcome of an earlier run on the same input and answers

vars == <<stdin, pc, limit, list_resp, list_requests, story_ids, nsubmitted,
          nstarted, running, finished, item_resp, requested, yielded,
          results, next_rank, stories, stdout, prev>>

Positions == 1..MaxList

\* A count taken from the id list instead of the stories built.
OutputObject_lenIds(sts) == [stories |-> sts, count |-> Len(story_ids)]

\* {"stories": stories, "count": len(stories)}
OutputObject(sts) == [stories |-> sts, count |-> Len(sts)]
NoPrev == [ran |-> FALSE, pc |-> "start", stdout |-> <<>>]

Init ==
    /\ stdin \in StdinInputs
    /\ pc = "start"
    /\ limit = 0
    /\ list_resp = ListUnasked
    /\ list_requests = 0
    /\ story_ids = <<>>
    /\ nsubmitted = 0
    /\ nstarted = 0
    /\ running = {}
    /\ finished = {}
    /\ item_resp = [i \in Positions |-> Pending]
    /\ requested = <<>>
    /\ yielded = {}
    /\ results = EmptyDict
    /\ next_rank = 1
    /\ stories = <<>>
    /\ stdout = <<>>
    /\ prev = NoPrev

\* params = json.load(sys.stdin); limit = ...; limit = max(1, min(500, limit))
ReadInput ==
    /\ pc = "start"
    /\ IF stdin.ok
         THEN /\ limit' = EffectiveLimit(stdin)
              /\ pc' = "list"
         ELSE /\ pc' = "aborted"
              /\ UNCHANGED limit
    /\ UNCHANGED <<stdin, list_resp, list_requests, story_ids, nsubmitted,
                   nstarted, running, finished, item_resp, requested,
                   yielded, results, next_rank, stories, stdout, prev>>

\* The endpoint's answer: free on first request, the recorded one afterwards.
ListAnswers == IF list_resp.state = "unasked" THEN ListResponses ELSE {list_resp}

\* A failed list request swallowed and treated as an empty list.
AfterList_swallow(r) == "submit"

\* Where main goes after the list request: raise_for_status() and json()
\* raise out of main on a failure.
AfterList(r) == IF r.state = "ok" THEN "submit" ELSE "aborted"

\* response = requests.get(topstories); raise_for_status(); json()[:limit]
FetchList ==
    /\ pc = "list"
    /\ list_requests' = list_requests + 1
    /\ \E r \in ListAnswers :
         /\ list_resp' = r
         /\ pc' = AfterList(r)
         /\ story_ids' = IF r.state = "ok"
                            THEN Truncate(r.ids, limit)
                            ELSE story_ids
    /\ UNCHANGED <<stdin, limit, nsubmitted, nstarted, running, finished,
                   item_resp, requested, yielded, results, next_rank,
                   stories, stdout, prev>>

\* One executor.submit(fetch_item, sid) of the dict comprehension.
Submit ==
    /\ pc = "submit"
    /\ nsubmitted < Len(story_ids)
    /\ nsubmitted' = nsubmitted + 1
    /\ UNCHANGED <<stdin, pc, limit, list_resp, list_requests, story_ids,
                   nstarted, running, finished, item_resp, requested,
                   yielded, results, next_rank, stories, stdout, prev>>

\* The comprehension is over; results = {}; the as_completed loop begins.
BeginCollect ==
    /\ pc = "submit"
    /\ nsubmitted = Len(story_ids)
    /\ pc' = "collect"
    /\ results' = EmptyDict
    /\ UNCHANGED <<stdin, limit, list_resp, list_requests, story_ids,
                   nsubmitted, nstarted, running, finished, item_resp,
                   requested, yielded, next_rank, stories, stdout, prev>>

\* A pool that starts a thread for every queued work item.
CanStart_unbounded == nstarted < nsubmitted

\* A pool whose queued work items are dropped once main is unwinding.
CanStart_cancelOnError ==
    /\ nstarted < nsubmitted
    /\ Cardinality(running) < PoolSize
    /\ pc # "unwind"

\* A pool thread takes the oldest queued work item and issues its GET.
CanStart == nstarted < nsubmitted /\ Cardinality(running) < PoolSize

StartRequest ==
    /\ CanStart
    /\ nstarted' = nstarted + 1
    /\ running' = running \cup {nstarted + 1}
    /\ requested' = Append(requested, story_ids[nstarted + 1])
    /\ UNCHANGED <<stdin, pc, limit, list_resp, list_requests, story_ids,
                   nsubmitted, finished, item_resp, yielded, results,
                   next_rank, stories, stdout, prev>>

ItemAnswers(i) ==
    IF item_resp[i].kind = "pending"
      THEN ItemResponses(story_ids[i])
      ELSE {item_resp[i]}

\* A worker that inserts its own result into results.
Complete_writes(i) ==
    /\ i \in running
    /\ \E r \in ItemAnswers(i) :
         /\ item_resp' = [item_resp EXCEPT ![i] = r]
         /\ results' = IF Truthy(r) THEN DictSet(results, story_ids[i], r.body)
                                    ELSE results
    /\ running' = running \ {i}
    /\ finished' = finished \cup {i}
    /\ UNCHANGED <<stdin, pc, limit, list_resp, list_requests, story_ids,
                   nsubmitted, nstarted, requested, yielded, next_rank,
                   stories, stdout, prev>>

\* fetch_item returns or raises in its worker; the future becomes done.
Complete(i) ==
    /\ i \in running
    /\ \E r \in ItemAnswers(i) : item_resp' = [item_resp EXCEPT ![i] = r]
    /\ running' = running \ {i}
    /\ finished' = finished \cup {i}
    /\ UNCHANGED <<stdin, pc, limit, list_resp, list_requests, story_ids,
                   nsubmitted, nstarted, requested, yielded, results,
                   next_rank, stories, stdout, prev>>

\* A loop body that keeps only items carrying a title.
Store_titled(res, id, r) ==
    IF Truthy(r) /\ "title" \in DOMAIN r.body THEN DictSet(res, id, r.body) ELSE res

\* A loop body without the `if item` test.
Store_always(res, id, r) == DictSet(res, id, r.body)

\* What the loop body does to results with a future that did not raise.
Store(res, id, r) == IF Truthy(r) THEN DictSet(res, id, r.body) ELSE res

\* One iteration of `for future in as_completed(future_to_id)`:
\* item = future.result() re-raises what fetch_item raised.
Collect(i) ==
    /\ pc = "collect"
    /\ i \in finished \ yielded
    /\ yielded' = yielded \cup {i}
    /\ IF item_resp[i].kind = "raise"
         THEN /\ pc' = "unwind"
              /\ UNCHANGED results
         ELSE /\ results' = Store(results, story_ids[i], item_resp[i])
              /\ UNCHANGED pc
    /\ UNCHANGED <<stdin, limit, list_resp, list_requests, story_ids,
                   nsubmitted, nstarted, running, finished, item_resp,
                   requested, next_rank, stories, stdout, prev>>

\* A pool left without waiting (shutdown(wait=False)).
AllFinished_nowait == TRUE

\* shutdown(wait=True): every submitted work item has been run.
AllFinished ==
    /\ nstarted = nsubmitted
    /\ running = {}

\* A drain loop left after the first completed future.
ExitReady_first ==
    \/ pc = "collect" /\ (yielded # {} \/ Len(story_ids) = 0)
    \/ pc = "unwind"

\* A drain loop that waits for one future per entry of the untruncated list.
ExitReady_fullList ==
    \/ pc = "collect" /\ yielded = 1..Len(list_resp.ids)
    \/ pc = "unwind"

\* Leaving the with block: executor.shutdown(wait=True) returns once every
\* submitted work item has run; a pending exception then leaves main.
ExitReady ==
    \/ pc = "collect" /\ yielded = 1..Len(story_ids)
    \/ pc = "unwind"

\* A wait for the first completed future only, without joining the pool.
ExecutorExit_firstCompleted ==
    /\ pc = "collect"
    /\ yielded # {} \/ Len(story_ids) = 0
    /\ pc' = "reassemble"
    /\ UNCHANGED <<stdin, limit, list_resp, list_requests, story_ids,
                   nsubmitted, nstarted, running, finished, item_resp,
                   requested, yielded, results, next_rank, stories, stdout,
                   prev>>

ExecutorExit ==
    /\ ExitReady
    /\ AllFinished
    /\ pc' = IF pc = "unwind" THEN "aborted" ELSE "reassemble"
    /\ UNCHANGED <<stdin, limit, list_resp, list_requests, story_ids,
                   nsubmitted, nstarted, running, finished, item_resp,
                   requested, yielded, results, next_rank, stories, stdout,
                   prev>>

\* Stories put at the front of the list.
Appended_prepend(sts, res, id) ==
    IF id \in DOMAIN res THEN <<format_story(res[id])>> \o sts ELSE sts

\* One iteration of `for story_id in story_ids`.
Appended(sts, res, id) ==
    IF id \in DOMAIN res THEN Append(sts, format_story(res[id])) ELSE sts

\* A loop body that also writes the output built so far.
Reassemble_streaming ==
    /\ pc = "reassemble"
    /\ next_rank <= Len(story_ids)
    /\ stories' = Appended(stories, results, story_ids[next_rank])
    /\ next_rank' = next_rank + 1
    /\ stdout' = Append(stdout, OutputObject(stories'))
    /\ UNCHANGED <<stdin, pc, limit, list_resp, list_requests, story_ids,
                   nsubmitted, nstarted, running, finished, item_resp,
                   requested, yielded, results, prev>>

Reassemble ==
    /\ pc = "reassemble"
    /\ next_rank <= Len(story_ids)
    /\ stories' = Appended(stories, results, story_ids[next_rank])
    /\ next_rank' = next_rank + 1
    /\ UNCHANGED <<stdin, pc, limit, list_resp, list_requests, story_ids,
                   nsubmitted, nstarted, running, finished, item_resp,
                   requested, yielded, results, stdout, prev>>

\* json.dump({"stories": stories, "count": len(stories)}, sys.stdout)
Emit ==
    /\ pc = "reassemble"
    /\ next_rank > Len(story_ids)
    /\ stdout' = Append(stdout, OutputObject(stories))
    /\ pc' = "done"
    /\ UNCHANGED <<stdin, limit, list_resp, list_requests, story_ids,
                   nsubmitted, nstarted, running, finished, item_resp,
                   requested, yielded, results, next_rank, stories, prev>>

Next ==
    \/ ReadInput
    \/ FetchList
    \/ Submit
    \/ BeginCollect
    \/ StartRequest
    \/ \E i \in Positions : Complete(i)
    \/ \E i \in Positions : Collect(i)
    \/ ExecutorExit
    \/ Reassemble
    \/ Emit

Spec == Init /\ [][Next]_vars

\* Every network call returns or raises within its timeout and threads are
\* scheduled: a run keeps stepping while a step is possible.
FairSpec == Init /\ [][Next]_vars /\ WF_vars(Next)

Terminal == pc \in {"done", "aborted"}

\* The program invoked once more on the same standard input, with the
\* endpoints answering every request as they did in the first run.
Rerun ==
    /\ Terminal
    /\ ~prev.ran
    /\ prev' = [ran |-> TRUE, pc |-> pc, stdout |-> stdout]
    /\ pc' = "start"
    /\ limit' = 0
    /\ list_requests' = 0
    /\ story_ids' = <<>>
    /\ nsubmitted' = 0
    /\ nstarted' = 0
    /\ running' = {}
    /\ finished' = {}
    /\ requested' = <<>>
    /\ yielded' = {}
    /\ results' = EmptyDict
    /\ next_rank' = 1
    /\ stories' = <<>>
    /\ stdout' = <<>>
    /\ UNCHANGED <<stdin, list_resp, item_resp>>

NextTwoRuns == Next \/ Rerun

SpecTwoRuns == Init /\ [][NextTwoRuns]_vars

\* ---------------------------------------------------- format_story alone
\* Item records of every shape: each field of interest present, with one of
\* a few values, or absent; at least one field present (`if item`).
ItemFields ==
    {"id", "title", "url", "text", "by", "score", "descendants", "time", "type"}
RawItemValues ==
    [id : {111}, title : {"t"}, url : {"u"}, text : {"x"}, by : {"a"},
     score : {0, 7}, descendants : {3},
     time : {0, 59, 86399, 86400, 951782400, 1700000000}, type : {"story"}]
RawItems ==
    {[k \in P |-> v[k]] : P \in (SUBSET ItemFields) \ {{}}, v \in RawItemValues}

\* main after the with block, for a list of the one id 111 whose request
\* returned some item record.
InitFormat ==
    \E item \in RawItems :
        /\ stdin = [ok |-> TRUE, has_limit |-> FALSE, limit |-> 0]
        /\ pc = "reassemble"
        /\ limit = DefaultLimit
        /\ list_resp = [state |-> "ok", ids |-> <<111>>]
        /\ list_requests = 1
        /\ story_ids = <<111>>
        /\ nsubmitted = 1
        /\ nstarted = 1
        /\ running = {}
        /\ finished = {1}
        /\ item_resp = [i \in Positions |->
                          IF i = 1 THEN [kind |-> "dict", body |-> item]
                                   ELSE Pending]
        /\ requested = <<111>>
        /\ yielded = {1}
        /\ results = DictSet(EmptyDict, 111, item)
        /\ next_rank = 1
        /\ stories = <<>>
        /\ stdout = <<>>
        /\ prev = NoPrev

NextFormat == Reassemble \/ Emit

SpecFormat == InitFormat /\ [][NextFormat]_vars

\* ================================================================ claims
\* clamp(L, 1, 500) of the limit the caller gave (30 when it gave none),
\* written out by cases.
RequestedLimit == IF stdin.has_limit THEN stdin.limit ELSE 30
ClampedLimit ==
    IF RequestedLimit < 1 THEN 1
    ELSE IF RequestedLimit > 500 THEN 500
    ELSE RequestedLimit

\* The upstream list's first clamp(limit, 1, 500) entries.
TruncatedList ==
    [k \in 1..(IF Len(list_resp.ids) < ClampedLimit
                 THEN Len(list_resp.ids) ELSE ClampedLimit) |-> list_resp.ids[k]]

ListOk == stdin.ok /\ list_resp.state = "ok" /\ pc \notin {"start", "list"}
Ranks == 1..Len(story_ids)
SomeItemRaised == \E i \in Ranks : item_resp[i].kind = "raise"

\* The ids, in rank order, that are keys of the mapping, each with the Story
\* of its record.
RECURSIVE RankFilter(_, _)
RankFilter(ids, res) ==
    IF ids = <<>> THEN <<>>
    ELSE (IF Head(ids) \in DOMAIN res
            THEN <<format_story(res[Head(ids)])>> ELSE <<>>)
         \o RankFilter(Tail(ids), res)

\* The ids, in rank order, whose own request returned a non-empty record or
\* whose id some request returned a non-empty record for.
RECURSIVE RanksPresent(_)
RanksPresent(k) ==
    IF k = 0 THEN <<>>
    ELSE RanksPresent(k - 1)
         \o (IF \E j \in Ranks : story_ids[j] = story_ids[k] /\ Truthy(item_resp[j])
               THEN <<story_ids[k]>> ELSE <<>>)

StoryIdsOf(sts) == [k \in 1..Len(sts) |-> sts[k].id]

\* C1: a failed item fetch is treated as missing: the run that got its id
\* list still completes, and emits one output object holding the stories of
\* the ids that returned a record; the failure never aborts the run.
C1_ItemFailureOmitted ==
    (ListOk /\ Terminal /\ SomeItemRaised) =>
        /\ pc = "done"
        /\ Len(stdout) = 1
        /\ StoryIdsOf(stdout[1].stories) = RanksPresent(Len(story_ids))

\* C2: the emitted stories are exactly the truncated id list walked in its
\* original order and restricted to the keys of the fetch mapping (rank
\* order kept, no entry and no placeholder for an absent id), at every step
\* of the reassembly and in the output.
C2_RankOrder ==
    /\ pc \in {"reassemble", "done"} =>
         stories = RankFilter(Take(story_ids, next_rank - 1), results)
    /\ pc = "done" =>
         /\ Len(stdout) = 1
         /\ stdout[1].stories = RankFilter(story_ids, results)

C2_Witness ==
    /\ pc = "done"
    /\ Len(story_ids) >= 3
    /\ story_ids[2] \notin DOMAIN results
    /\ Len(stdout[1].stories) = 2
    /\ stdout[1].stories[1].id = story_ids[1]
    /\ stdout[1].stories[2].id = story_ids[3]

DuplicatesAgree ==
    \A i, j \in Ranks :
        (story_ids[i] = story_ids[j] /\ Truthy(item_resp[i]) /\ Truthy(item_resp[j]))
            => item_resp[i].body = item_resp[j].body

C4_CountBounds ==
    \A k \in 1..Len(stdout) :
        /\ stdout[k].count = Len(stdout[k].stories)
        /\ 0 <= stdout[k].count
        /\ stdout[k].count <= ClampedLimit

C4_Witness ==
    /\ pc = "done"
    /\ stdin.has_limit
    /\ stdin.limit = 2
    /\ Len(list_resp.ids) > 2
    /\ story_ids[1] = story_ids[2]
    /\ stdout[1].count = 2

\* C5: an integer limit is never rejected; the limit in effect is
\* max(1, min(500, limit)), 30 when none is given, and it is in effect
\* before the id list is truncated: -5 acts as 1, 10000 as 500.
C5_LimitClamped ==
    /\ (stdin.ok /\ pc # "start") =>
         /\ limit = ClampedLimit
         /\ 1 <= limit /\ limit <= 500
         /\ pc = "aborted" => list_requests = 1
    /\ ListOk => story_ids = TruncatedList
    /\ Clamp(-5) = Clamp(1)
    /\ Clamp(0) = 1
    /\ Clamp(10000) = Clamp(500)
    /\ \A L \in 1..500 : Clamp(L) = L

C5_Witness ==
    /\ pc = "done"
    /\ stdin.has_limit
    /\ stdin.limit = -5
    /\ limit = 1
    /\ Len(list_resp.ids) = 3
    /\ Len(story_ids) = 1
    /\ stdout[1].count = 1

\* C6: at every moment at most max_workers item requests are in flight,
\* whatever the length of the id list; a request beyond the pool's size
\* stays queued while the pool is full.
C6_InFlightBounded ==
    /\ Cardinality(running) <= PoolSize
    /\ PoolSize <= max_workers
    /\ running \subseteq 1..nstarted
    /\ nstarted <= nsubmitted
    /\ Cardinality(running) + Cardinality(finished) = nstarted

C6_Witness ==
    /\ Len(story_ids) > PoolSize
    /\ nsubmitted = Len(story_ids)
    /\ Cardinality(running) = PoolSize
    /\ nstarted < nsubmitted

\* C7: when standard input is no JSON or the story-list request fails, the
\* run is aborted: nothing is ever written, no item request is issued, and
\* the list request is made at most once (never, on malformed input).
C7_FatalAborts ==
    /\ ~stdin.ok =>
         /\ pc \in {"start", "aborted"}
         /\ list_requests = 0
         /\ nsubmitted = 0 /\ requested = <<>> /\ stdout = <<>>
    /\ list_resp.state = "fail" =>
         /\ pc = "aborted"
         /\ list_requests = 1
         /\ nsubmitted = 0 /\ requested = <<>> /\ stdout = <<>>

C7_Witness ==
    /\ pc = "aborted"
    /\ stdin.ok
    /\ list_resp.state = "fail"
    /\ list_requests = 1

\* C8: every position of the truncated id list has its request issued and
\* run to completion, whatever happened to the other fetches, also when it
\* was still queued while a failure was already leaving main.
C8_SiblingsComplete ==
    ListOk ~> (finished = Ranks /\ Len(requested) = Len(story_ids))

\* Request 1 has failed and its exception is leaving main, while a request
\* that had to wait for a pool slot is in flight beside request 2.
C8_Witness ==
    /\ pc = "unwind"
    /\ item_resp[1].kind = "raise"
    /\ yielded = {1}
    /\ Cardinality(running) = PoolSize
    /\ 2 \in running
    /\ \E j \in running : j > PoolSize

\* C9: the item requests issued are one per position of the upstream list's
\* first clamp(limit, 1, 500) entries, in that order: none beyond the
\* truncation point, one per occurrence of a duplicated id, none a second
\* time; a run that got its list and ended has issued them all.
C9_OneRequestPerPosition ==
    /\ ListOk =>
         /\ Len(requested) <= Len(TruncatedList)
         /\ requested = [k \in 1..Len(requested) |-> TruncatedList[k]]
         /\ (Terminal => requested = TruncatedList)
    /\ ~ListOk => requested = <<>>

C9_Witness ==
    /\ pc = "aborted"
    /\ stdin.has_limit
    /\ stdin.limit = 2
    /\ Len(list_resp.ids) = 3
    /\ list_resp.ids[3] # list_resp.ids[1]
    /\ requested = <<list_resp.ids[1], list_resp.ids[1]>>
    /\ SomeItemRaised

\* C10: when every item fetch returns an item record no story is lost:
\* count is min(clamp(limit, 1, 500), length of the upstream list) and the
\* stories are those of the upstream list's ids in its order.
C10_NothingLost ==
    (Terminal /\ ListOk /\ \A i \in Ranks : Truthy(item_resp[i])) =>
        /\ pc = "done"
        /\ Len(stdout) = 1
        /\ stdout[1].count = Len(TruncatedList)
        /\ StoryIdsOf(stdout[1].stories) = TruncatedList

C10_Witness ==
    /\ pc = "done"
    /\ ~stdin.has_limit
    /\ Len(list_resp.ids) = 3
    /\ \A i \in Ranks : Truthy(item_resp[i])
    /\ stdout[1].count = 3
\* Every submitted work item has been taken from the queue and has returned
\* or raised.
AllFetchesOver ==
    /\ nsubmitted = Len(story_ids)
    /\ nstarted = nsubmitted
    /\ running = {}
    /\ finished = Ranks

\* C11: the output object is written at most once, never before every
\* issued item fetch has completed and the reassembly is over, and a run
\* that ended successfully has written exactly one.
C11_AtomicOutput ==
    /\ Len(stdout) <= 1
    /\ stdout # <<>> =>
         /\ pc = "done"
         /\ AllFetchesOver
         /\ next_rank = Len(story_ids) + 1
         /\ stdout[1].stories = stories
    /\ pc = "done" => Len(stdout) = 1
    /\ pc = "aborted" => stdout = <<>>

C11_Witness ==
    /\ pc = "done"
    /\ Len(story_ids) >= 3
    /\ Len(stdout) = 1
    /\ stdout[1].count = 3

\* The reassembly loop is testing ids against the mapping or has done so.
ReadingResults == pc \in {"reassemble", "done"}

\* C12: whenever the reassembly pass reads the fetch mapping no item fetch
\* is in flight or queued and every future has been drained, and from then
\* on the mapping is not written.
C12_ReadAfterJoin ==
    /\ [](ReadingResults => (AllFetchesOver /\ yielded = Ranks))
    /\ [][ReadingResults => results' = results]_vars

C12_Witness ==
    /\ pc = "reassemble"
    /\ next_rank = 2
    /\ Len(story_ids) >= 3
    /\ DOMAIN results = StoryIdSet
    /\ Len(stories) = 1
\* The drain loop's step for position i writes results[story_ids[i]].
WritesKey(i) == i \in yielded' \ yielded /\ Truthy(item_resp[i])

C14_Terminates ==
    /\ <>Terminal
    /\ [](Terminal =>
            /\ running = {}
            /\ nstarted = nsubmitted
            /\ \/ pc = "done" /\ Len(stdout) = 1
               \/ pc = "aborted" /\ stdout = <<>>)

C14_Witness ==
    /\ pc = "aborted"
    /\ Len(story_ids) >= 3
    /\ item_resp[3].kind = "raise"
    /\ yielded = {3}
    /\ finished = Ranks
\* The UTC epoch instant, and further instants with their UTC calendar
\* fields <<seconds, year, month, day, hour, minute, second>>.
EpochInstant ==
    [year |-> 1970, month |-> 1, day |-> 1, hour |-> 0, minute |-> 0,
     second |-> 0, offset |-> "+00:00"]
KnownInstants ==
    {<<59, 1970, 1, 1, 0, 0, 59>>,
     <<86399, 1970, 1, 1, 23, 59, 59>>,
     <<86400, 1970, 1, 2, 0, 0, 0>>,
     <<951782400, 2000, 2, 29, 0, 0, 0>>,
     <<1700000000, 2023, 11, 14, 22, 13, 20>>}

\* A field copied, null when absent.
Copied(st, field, it, key) ==
    IF key \in DOMAIN it THEN st[field] = it[key] ELSE st[field] = Null

\* A number copied, 0 when absent.
CopiedOrZero(st, field, it, key) ==
    IF key \in DOMAIN it THEN st[field] = it[key] ELSE st[field] = 0

\* C15: the Story of a RawItem copies id, title, url, text and type (null
\* when absent), has by as author, score and descendants (as comment_count)
\* with 0 when absent, and created_at the UTC instant of time, the epoch
\* instant when time is absent or 0; the output holds that Story.
C15_Normalized ==
    Len(stories) = 1 =>
        LET it == item_resp[1].body
            st == stories[1]
        IN  /\ DOMAIN st = {"id", "title", "url", "text", "author", "score",
                            "comment_count", "created_at", "type"}
            /\ Copied(st, "id", it, "id")
            /\ Copied(st, "title", it, "title")
            /\ Copied(st, "url", it, "url")
            /\ Copied(st, "text", it, "text")
            /\ Copied(st, "type", it, "type")
            /\ Copied(st, "author", it, "by")
            /\ CopiedOrZero(st, "score", it, "score")
            /\ CopiedOrZero(st, "comment_count", it, "descendants")
            /\ ("time" \notin DOMAIN it) => st.created_at = EpochInstant
            /\ ("time" \in DOMAIN it /\ it["time"] = 0) => st.created_at = EpochInstant
            /\ \A k \in KnownInstants :
                 ("time" \in DOMAIN it /\ it["time"] = k[1]) =>
                    st.created_at =
                        [year |-> k[2], month |-> k[3], day |-> k[4],
                         hour |-> k[5], minute |-> k[6], second |-> k[7],
                         offset |-> "+00:00"]
            /\ pc = "done" => stdout = <<[stories |-> <<st>>, count |-> 1]>>

C15_Witness ==
    /\ pc = "done"
    /\ DOMAIN item_resp[1].body = {"id", "by", "time"}
    /\ item_resp[1].body["time"] = 0
    /\ stdout[1].stories[1].created_at = EpochInstant
    /\ stdout[1].stories[1].author = "a"
    /\ stdout[1].stories[1].score = 0
    /\ stdout[1].stories[1].title = Null
\* An item request that returned, without raising, JSON null or {}.
EmptyBody(r) == r.kind = "null" \/ (r.kind = "dict" /\ DOMAIN r.body = {})

\* An item request that returned a JSON object with at least one field.
ReturnedRecord(r) == r.kind = "dict" /\ ~EmptyBody(r)

\* The ranks whose id some request returned a record for.
RanksWithRecord ==
    {k \in Ranks : \E j \in Ranks : story_ids[j] = story_ids[k]
                                      /\ ReturnedRecord(item_resp[j])}

\* C16: a request that completes without error with an empty body adds no
\* key to the mapping and does not abort the run: the mapping's keys are the
\* ids of the drained requests that returned a non-empty record, and a run
\* without a raised request ends with one story per rank whose id some
\* request returned a record for.
C16_EmptyBodyMissing ==
    /\ (ListOk /\ pc # "submit") =>
         DOMAIN results =
            {story_ids[i] : i \in {j \in yielded : ReturnedRecord(item_resp[j])}}
    /\ pc = "unwind" => \E i \in yielded : item_resp[i].kind = "raise"
    /\ (ListOk /\ Terminal /\ ~SomeItemRaised) =>
         /\ pc = "done"
         /\ Len(stdout[1].stories) = Cardinality(RanksWithRecord)

C16_Witness ==
    /\ pc = "done"
    /\ Len(story_ids) >= 3
    /\ story_ids[1] = story_ids[3]
    /\ story_ids[2] # story_ids[1]
    /\ item_resp[1].kind = "null"
    /\ item_resp[2].kind = "dict" /\ EmptyBody(item_resp[2])
    /\ Truthy(item_resp[3])
    /\ DOMAIN results = {story_ids[1]}
    /\ stdout[1].count = 2

\* C17: an output object is written only when the list request and every
\* issued item request returned without raising; once an item request has
\* raised the run writes nothing and can only end aborted, and it is
\* aborted only after every issued item request has finished.
C17_OutputOnlyIfNoRaise ==
    /\ stdout # <<>> =>
         /\ ListOk
         /\ \A i \in Ranks : item_resp[i].kind \in {"null", "dict"}
    /\ SomeItemRaised => (stdout = <<>> /\ pc \notin {"reassemble", "done"})
    /\ (pc = "aborted" /\ ListOk) =>
         /\ SomeItemRaised
         /\ AllFetchesOver
         /\ Len(requested) = Len(story_ids)

C17_Witness ==
    /\ pc = "aborted"
    /\ Len(story_ids) >= 3
    /\ item_resp[2].kind = "raise"
    /\ Truthy(item_resp[1])
    /\ Truthy(item_resp[3])
    /\ yielded = {1, 2}
    /\ AllFetchesOver
    /\ stdout = <<>>

\* C18: the mapping has a single writer: it changes only in a step of the
\* main thread's drain loop, which handles one drained future and leaves
\* the workers' state alone; a step in which a worker starts or finishes a
\* request never changes it.
C18_SingleWriter ==
    [][results' # results =>
          /\ pc = "collect"
          /\ Cardinality(yielded' \ yielded) = 1
          /\ running' = running
          /\ finished' = finished
          /\ nstarted' = nstarted]_vars

C18_Witness ==
    /\ pc = "collect"
    /\ results # EmptyDict
    /\ running # {}
    /\ nstarted < nsubmitted
====
